---- MODULE Spec2Model ----
(***************************************************************************)
(* A model of the mst library (src/src/lib.rs): Vertex::distance,          *)
(* Edge::new / Edge::from_vertices, generate / minimum_distance and        *)
(* minimum_spanning_tree / vertices_available.                             *)
(*                                                                         *)
(* Conventions.                                                            *)
(*  - A Vec is a function with domain 0..len-1, so that indices are the    *)
(*    source's indices.                                                    *)
(*  - An i32 is an integer; the two outcomes of an i32 overflow (a panic   *)
(*    when the build checks overflow, two's-complement wrapping when it    *)
(*    does not) are told apart by the variable build.                      *)
(*  - An f32 is a fixed-point number counted in 1/Scale, with the two      *)
(*    extra values NaN and FMARK (f32::INFINITY).                          *)
(***************************************************************************)
EXTENDS Integers, Sequences, FiniteSets, TLC

VARIABLES
    pc,            \* position of the call being modelled
    build,         \* "debug": i32 overflow panics; "release": it wraps
    points,        \* minimum_spanning_tree: the argument; generate: the local Vec
    vertex_table,  \* minimum_spanning_tree: the local Vec<Item>
    edges,         \* minimum_spanning_tree: the local (and returned) Vec<Edge>
    admitted,      \* history: the (tree_index, index, cost) of each loop iteration
    gen_args,      \* generate: n, min_d, min_x, min_y, max_x, max_y
    edge_args,     \* Edge::new / Edge::from_vertices: x0, y0, x1, y1
    edge,          \* the Edge constructed by Edge::new / Edge::from_vertices
    text,          \* calc's output, plot's input: the lines written by exhaust
    ingested,      \* plot's ingest: the local (and returned) Vec<Edge>
    call,          \* the arguments of the function called (distance, plot_dimensions)
    ret            \* the value that function returned

vars ==
    <<pc, build, points, vertex_table, edges, admitted, gen_args, edge_args, edge,
      text, ingested, call, ret>>

(***************************************************************************)
(* Bounds of the model.                                                    *)
(***************************************************************************)
\* Longest point sequence given to minimum_spanning_tree.
MaxPoints == 4
\* Largest n given to generate.
MaxN == 3

\* A coordinate far enough from the small ones that dx * dx leaves the i32 range.
Far == 2 ^ 16

(***************************************************************************)
(* Vec helpers (0-based).                                                  *)
(***************************************************************************)
EmptyVec == [i \in {} |-> 0]

VecLen(v) == Cardinality(DOMAIN v)

VecPush(v, e) == [i \in 0..VecLen(v) |-> IF i < VecLen(v) THEN v[i] ELSE e]

(***************************************************************************)
(* Exact arithmetic on naturals too large for one 32-bit integer of TLC:    *)
(* four limbs in base 2^15, least significant first.                       *)
(***************************************************************************)
LimbBase == 2 ^ 15

BigOfProduct(a, b) ==
    LET a0 == a % LimbBase
        a1 == a \div LimbBase
        b0 == b % LimbBase
        b1 == b \div LimbBase
        c0 == a0 * b0
        c1 == a1 * b0 + a0 * b1
        c2 == a1 * b1
        k1 == c1 + (c0 \div LimbBase)
        k2 == c2 + (k1 \div LimbBase)
    IN  <<c0 % LimbBase, k1 % LimbBase, k2 % LimbBase, k2 \div LimbBase>>

BigAdd(x, y) ==
    LET s1 == x[1] + y[1]
        s2 == x[2] + y[2] + (s1 \div LimbBase)
        s3 == x[3] + y[3] + (s2 \div LimbBase)
        s4 == x[4] + y[4] + (s3 \div LimbBase)
    IN  <<s1 % LimbBase, s2 % LimbBase, s3 % LimbBase, s4>>

\* x * k for 0 <= k <= LimbBase.
BigScale(x, k) ==
    LET s1 == x[1] * k
        s2 == x[2] * k + (s1 \div LimbBase)
        s3 == x[3] * k + (s2 \div LimbBase)
        s4 == x[4] * k + (s3 \div LimbBase)
    IN  <<s1 % LimbBase, s2 % LimbBase, s3 % LimbBase, s4>>

BigLE(x, y) ==
    \/ x[4] < y[4]
    \/ x[4] = y[4] /\ x[3] < y[3]
    \/ x[4] = y[4] /\ x[3] = y[3] /\ x[2] < y[2]
    \/ x[4] = y[4] /\ x[3] = y[3] /\ x[2] = y[2] /\ x[1] <= y[1]

RECURSIVE BigSqrtSearch(_, _, _)
BigSqrtSearch(x, lo, hi) ==
    IF lo = hi THEN lo
    ELSE LET mid == (lo + hi + 1) \div 2
         IN  IF BigLE(BigOfProduct(mid, mid), x)
             THEN BigSqrtSearch(x, mid, hi)
             ELSE BigSqrtSearch(x, lo, mid - 1)

\* floor(sqrt(x)) for x < 2^60.
BigSqrt(x) == BigSqrtSearch(x, 0, 2 ^ 30 - 1)

(***************************************************************************)
(* i32 and f32.                                                            *)
(***************************************************************************)
MaxI32 == 2147483647

\* Resolution of the fixed-point image of an f32: lengths are counted in 1/Scale.
Scale == 1000

\* f32::NAN, the square root of a negative number.
NaN == -1

\* Table markers (lib.rs:16-17): f32::INFINITY is above every finite length,
\* usize::MAX is above every index of a Vec.
FMARK == 2147483647

UMARK == 2147483646

Abs(a) == IF a < 0 THEN -a ELSE a

\* f32 comparison: every comparison with NaN is false.
FLess(a, b) == a # NaN /\ b # NaN /\ a < b

FGreaterEq(a, b) == a # NaN /\ b # NaN /\ a >= b

Vertex(x, y) == [x |-> x, y |-> y]

\* The mathematical value of dx*dx + dy*dy (exact, never wrapped).
SumOfSquares(dx, dy) ==
    BigAdd(BigOfProduct(Abs(dx), Abs(dx)), BigOfProduct(Abs(dy), Abs(dy)))

\* Some i32 operation of Vertex::distance leaves the i32 range: a difference,
\* a square, or the sum (the squares are not negative, so the sum is the largest).
overflows_of(dx, dy) ==
    \/ Abs(dx) > MaxI32
    \/ Abs(dy) > MaxI32
    \/ ~BigLE(SumOfSquares(dx, dy), BigOfProduct(MaxI32, 1))

\* The low 31 bits of x read as a two's-complement number: one bit short.
WrapI31(x) ==
    LET top == x[3] % 2
        low == x[2] * LimbBase + x[1]
    IN  IF top >= 1 THEN (top - 2) * (2 ^ 30) + low ELSE low

\* The low 32 bits of x read as a two's-complement i32.
WrapI32(x) ==
    LET top == x[3] % 4
        low == x[2] * LimbBase + x[1]
    IN  IF top >= 2 THEN (top - 4) * (2 ^ 30) + low ELSE top * (2 ^ 30) + low

\* `w as f32` for an i32 w >= 0: the nearest value with a 24-bit significand,
\* ties to even (exact below 2^24).
RECURSIVE Ulp(_, _)
Ulp(w, q) == IF w \div q < 2 ^ 24 THEN q ELSE Ulp(w, 2 * q)

ToF32(w) ==
    LET q     == Ulp(w, 1)
        rem   == w % q
        lower == w - rem
        up    == \/ 2 * rem > q
                 \/ 2 * rem = q /\ (lower \div q) % 2 = 1
    IN  IF up THEN BigAdd(BigOfProduct(lower, 1), BigOfProduct(q, 1))
        ELSE BigOfProduct(lower, 1)

\* The f32 that Vertex::distance (lib.rs:31-34) returns for the coordinate
\* differences dx, dy when it returns: the wrapped i32 sum of the squares, cast
\* to f32, square-rooted; counted in 1/Scale, rounded down.
distance_of(dx, dy) ==
    LET w == WrapI32(SumOfSquares(dx, dy))
    IN  IF w < 0 THEN NaN
        ELSE BigSqrt(BigScale(BigScale(ToF32(w), Scale), Scale))

\* The Euclidean length sqrt(dx^2 + dy^2) itself, counted in 1/Scale, rounded down.
euclid_of(dx, dy) == BigSqrt(BigScale(BigScale(SumOfSquares(dx, dy), Scale), Scale))

\* The coordinates of the model's points and their differences. The three
\* operators above are tabulated on the differences (@@ makes TLC compute
\* each table once).
Coords == 0..4 \cup {2 ^ 15, Far}

Diffs == {a - b : a, b \in Coords}

distance_table == [d \in Diffs \X Diffs |-> distance_of(d[1], d[2])] @@ <<>>

overflows_table == [d \in Diffs \X Diffs |-> overflows_of(d[1], d[2])] @@ <<>>

euclid_table == [d \in Diffs \X Diffs |-> euclid_of(d[1], d[2])] @@ <<>>

\* Vertex::distance (lib.rs:31-34) when it returns.
distance(u, v) == distance_table[<<u.x - v.x, u.y - v.y>>]

\* Vertex::distance overflows i32 on u, v.
distance_overflows(u, v) == overflows_table[<<u.x - v.x, u.y - v.y>>]

\* Vertex::distance panics: the build checks overflow and there is one.
distance_panics(u, v) == build = "debug" /\ distance_overflows(u, v)

\* The Euclidean distance between u and v, counted in 1/Scale, rounded down.
EuclidLength(u, v) == euclid_table[<<u.x - v.x, u.y - v.y>>]

(***************************************************************************)
(* minimum_spanning_tree (lib.rs:144-210).                                 *)
(***************************************************************************)
\* The points the input sequences are drawn from: the unit square (equal
\* distances), the 3-4-5 triangle, and a far point whose distance to the
\* others overflows i32 (to (0,0): the sum wraps to 0; to (1,0): below 0).
PointPool ==
    {Vertex(0, 0), Vertex(1, 0), Vertex(0, 1), Vertex(1, 1),
     Vertex(3, 0), Vertex(3, 4), Vertex(Far, 0)}

\* Every Vec<Vertex> over PointPool of length 0..MaxPoints (repetitions allowed).
PointVecs == UNION {[0..(n - 1) -> PointPool] : n \in 0..MaxPoints}

\* Item::new (lib.rs:84-86).
Item(index, vertex) == [index |-> index, near |-> UMARK, cost |-> FMARK, vertex |-> vertex]

\* vertices_available (lib.rs:301-308).
vertices_available(vertices) == \E i \in DOMAIN vertices : vertices[i].near = UMARK

\* The best (tree_index, index, cost) before the scan (lib.rs:165-167).
NoneFound == [tree_index |-> UMARK, index |-> UMARK, cost |-> FMARK]

\* The inner loop with `<=` for `<`: an equal length replaces the best, so the
\* last pair of a tie wins.
RECURSIVE ScanInnerLastWins(_, _, _, _)
ScanInnerLastWins(table, best, t, i) ==
    IF i >= VecLen(table) THEN best
    ELSE IF table[i].near # UMARK THEN ScanInnerLastWins(table, best, t, i + 1)
    ELSE LET length == distance(table[t].vertex, table[i].vertex)
         IN  IF FLess(length, best.cost) \/ length = best.cost
             THEN ScanInnerLastWins(table,
                                    [tree_index |-> table[t].index,
                                     index      |-> table[i].index,
                                     cost       |-> length],
                                    t, i + 1)
             ELSE ScanInnerLastWins(table, best, t, i + 1)

\* The inner loop with `>` for `<`: no length is above FMARK, so nothing is found.
RECURSIVE ScanInnerInverted(_, _, _, _)
ScanInnerInverted(table, best, t, i) ==
    IF i >= VecLen(table) THEN best
    ELSE IF table[i].near # UMARK THEN ScanInnerInverted(table, best, t, i + 1)
    ELSE LET length == distance(table[t].vertex, table[i].vertex)
         IN  IF FLess(best.cost, length)
             THEN ScanInnerInverted(table,
                                    [tree_index |-> table[t].index,
                                     index      |-> table[i].index,
                                     cost       |-> length],
                                    t, i + 1)
             ELSE ScanInnerInverted(table, best, t, i + 1)

\* The inner loop (lib.rs:177-187) for the tree vertex at t, from position i
\* on: a vertex not in the tree replaces the best only when strictly nearer.
RECURSIVE ScanInner(_, _, _, _)
ScanInner(table, best, t, i) ==
    IF i >= VecLen(table) THEN best
    ELSE IF table[i].near # UMARK THEN ScanInner(table, best, t, i + 1)
    ELSE LET length == distance(table[t].vertex, table[i].vertex)
         IN  IF FLess(length, best.cost)
             THEN ScanInner(table,
                            [tree_index |-> table[t].index,
                             index      |-> table[i].index,
                             cost       |-> length],
                            t, i + 1)
             ELSE ScanInner(table, best, t, i + 1)

\* The outer loop looking from vertex 0 only: the pairs of the other tree
\* vertices are never met.
ScanOuterRootOnly(table, best, t) ==
    IF t >= VecLen(table) THEN best ELSE ScanInner(table, best, 0, 0)

\* The outer loop (lib.rs:172-188), from position t on: vertices not in the
\* tree are skipped.
RECURSIVE ScanOuter(_, _, _)
ScanOuter(table, best, t) ==
    IF t >= VecLen(table) THEN best
    ELSE IF table[t].near = UMARK THEN ScanOuter(table, best, t + 1)
    ELSE ScanOuter(table, ScanInner(table, best, t, 0), t + 1)

Scan(table) == ScanOuter(table, NoneFound, 0)

\* A distance computed by the scan panics (lib.rs:180).
ScanPanics(table) ==
    \E t, i \in DOMAIN table :
        /\ table[t].near # UMARK
        /\ table[i].near = UMARK
        /\ distance_panics(table[t].vertex, table[i].vertex)

\* The edge pushed for index i with its endpoints exchanged.
TreeEdgeSwapped(table, i) ==
    [u |-> table[table[i].near].vertex, v |-> table[i].vertex, length |-> table[i].cost]

\* The edge pushed for index i (lib.rs:203-206): a struct literal, not Edge::new.
TreeEdge(table, i) ==
    [u |-> table[i].vertex, v |-> table[table[i].near].vertex, length |-> table[i].cost]

\* The loop that builds the edge list (lib.rs:195-207), from index k on.
RECURSIVE BuildEdges(_, _, _)
BuildEdges(table, k, acc) ==
    IF k >= VecLen(table) THEN acc
    ELSE IF table[k].near = k THEN BuildEdges(table, k + 1, acc)
    ELSE BuildEdges(table, k + 1, VecPush(acc, TreeEdge(table, k)))

\* lib.rs:147-162: build the table, then put vertex 0 in the tree. Indexing
\* vertex_table[0] panics when the table is empty.
MstStart ==
    /\ pc = "mst_call"
    /\ LET table == [i \in DOMAIN points |-> Item(i, points[i])]
       IN  IF VecLen(table) = 0
           THEN /\ vertex_table' = table
                /\ pc' = "panic"
           ELSE /\ vertex_table' = [table EXCEPT ![0].near = 0, ![0].cost = 0]
                /\ pc' = "mst_loop"
    /\ UNCHANGED <<build, points, edges, admitted, gen_args, edge_args, edge,
                   text, ingested, call, ret>>

\* Admit with the two indices confused: the vertex is recorded as its own
\* nearest tree vertex.
AdmitSelf(table, found) ==
    [table EXCEPT ![found.index].cost = found.cost,
                  ![found.index].near = found.index]

\* lib.rs:189-191: connect the found vertex to the tree.
Admit(table, found) ==
    [table EXCEPT ![found.index].cost = found.cost,
                  ![found.index].near = found.tree_index]

\* lib.rs:164-192: one iteration of the while loop. It panics when a distance
\* overflows in a build that checks, or when the scan found no pair and
\* vertex_table[index] is indexed with UMARK.
MstRound ==
    /\ pc = "mst_loop"
    /\ vertices_available(vertex_table)
    /\ LET found == Scan(vertex_table)
       IN  IF ScanPanics(vertex_table) \/ found.index \notin DOMAIN vertex_table
           THEN /\ pc' = "panic"
                /\ UNCHANGED <<vertex_table, admitted>>
           ELSE /\ vertex_table' = Admit(vertex_table, found)
                /\ admitted' = Append(admitted, found)
                /\ pc' = "mst_loop"
    /\ UNCHANGED <<build, points, edges, gen_args, edge_args, edge,
                   text, ingested, call, ret>>

\* lib.rs:194-209: the loop has ended; build the edges and return Ok(edges).
MstReturn ==
    /\ pc = "mst_loop"
    /\ ~vertices_available(vertex_table)
    /\ edges' = BuildEdges(vertex_table, 0, EmptyVec)
    /\ pc' = "mst_done"
    /\ UNCHANGED <<build, points, vertex_table, admitted, gen_args, edge_args, edge,
                   text, ingested, call, ret>>

NoGenArgs == [n |-> 0, min_d |-> 0, min_x |-> 0, min_y |-> 0, max_x |-> 0, max_y |-> 0]

NoEdgeArgs == [x0 |-> 0, y0 |-> 0, x1 |-> 0, y1 |-> 0]

NoEdge == [u |-> Vertex(0, 0), v |-> Vertex(0, 0), length |-> NaN]

\* No call of Vertex::distance or plot_dimensions is modelled.
NoCall == [op |-> "none"]

\* The variables of the text round trip and of the single calls, unused.
Unused ==
    /\ text = <<>>
    /\ ingested = EmptyVec
    /\ call = NoCall
    /\ ret = NoCall

Init ==
    /\ pc = "mst_call"
    /\ build \in {"debug", "release"}
    /\ points \in PointVecs
    /\ vertex_table = EmptyVec
    /\ edges = EmptyVec
    /\ admitted = <<>>
    /\ gen_args = NoGenArgs
    /\ edge_args = NoEdgeArgs
    /\ edge = NoEdge
    /\ Unused

Next == MstStart \/ MstRound \/ MstReturn

\* A call of minimum_spanning_tree on any point sequence over PointPool.
Spec == Init /\ [][Next]_vars

(***************************************************************************)
(* generate and minimum_distance (lib.rs:91-134).                          *)
(***************************************************************************)
\* min_d values, in 1/Scale: 1.0, 1.5, 2.0 and 70000.0 (larger than the
\* distances that fit in i32 arithmetic).
MinDistances == {Scale, (3 * Scale) \div 2, 2 * Scale, 70000 * Scale}

\* The coordinates a draw can give. A rectangle within 0..2 is covered in full;
\* of a rectangle that reaches Far only these lattice points are drawn.
DrawXs == {0, 1, 2, Far}

DrawYs == {0, 1, Far}

GenArgs ==
    [n : -1..MaxN, min_d : MinDistances,
     min_x : {0, 1}, max_x : DrawXs, min_y : {0}, max_y : DrawYs]

\* min_d.ceil() as i32.
CeilToI32(d) == (d + Scale - 1) \div Scale

\* The i32 subtraction hi - lo leaves the i32 range.
sub_overflows(hi, lo) ==
    \/ lo < 0 /\ hi > MaxI32 + lo
    \/ lo > 0 /\ hi < (-MaxI32 - 1) + lo

\* hi - lo in wrapping i32 arithmetic, when it overflows: the difference less
\* 2^32 when it is above i32::MAX, plus 2^32 when it is below i32::MIN.
WrapSub(hi, lo) ==
    IF lo < 0 THEN (hi - MaxI32 - 1) + ((-MaxI32 - 1) - lo)
    ELSE ((hi + MaxI32) + 1) + ((MaxI32 - lo) + 1)

\* assert!(hi - lo > q) passes (lib.rs:106, 107): an overflowing subtraction
\* panics in a build that checks overflow and wraps in one that does not.
Wider(hi, lo, q) ==
    IF sub_overflows(hi, lo)
    THEN build = "release" /\ WrapSub(hi, lo) > q
    ELSE hi - lo > q

\* The assertions of lib.rs:98-107, in order; a failed one panics. The product
\* n * min_d.ceil() is within i32 for every n and min_d of the model.
ParametersAccepted(a) ==
    /\ a.n > 0
    /\ a.min_d > Scale
    /\ a.min_x < a.max_x
    /\ a.min_y < a.max_y
    /\ Wider(a.max_x, a.min_x, (a.n * CeilToI32(a.min_d)) \div 20)
    /\ Wider(a.max_y, a.min_y, (a.n * CeilToI32(a.min_d)) \div 20)

\* minimum_distance with the comparison turned round (d > min_d): nothing is
\* above FMARK, so the minimum stays FMARK.
RECURSIVE MinimumDistanceFromInverted(_, _, _, _)
MinimumDistanceFromInverted(v, ps, k, m) ==
    IF k >= VecLen(ps) THEN m
    ELSE LET d == distance(v, ps[k])
         IN  MinimumDistanceFromInverted(v, ps, k + 1, IF FLess(m, d) THEN d ELSE m)

\* minimum_distance (lib.rs:125-134), from position k on with running minimum m.
RECURSIVE MinimumDistanceFrom(_, _, _, _)
MinimumDistanceFrom(v, ps, k, m) ==
    IF k >= VecLen(ps) THEN m
    ELSE LET d == distance(v, ps[k])
         IN  MinimumDistanceFrom(v, ps, k + 1, IF FLess(d, m) THEN d ELSE m)

minimum_distance(v, ps) == MinimumDistanceFrom(v, ps, 0, FMARK)

\* lib.rs:97-110: the parameter checks, then the empty Vec.
GenStart ==
    /\ pc = "gen_call"
    /\ IF ParametersAccepted(gen_args)
       THEN pc' = "gen_loop" /\ points' = EmptyVec
       ELSE pc' = "panic" /\ UNCHANGED points
    /\ UNCHANGED <<build, vertex_table, edges, admitted, gen_args, edge_args, edge,
                   text, ingested, call, ret>>

\* lib.rs:112-119: one iteration of the sampling loop, drawing (x, y).
GenDraw(x, y) ==
    /\ pc = "gen_loop"
    /\ VecLen(points) < gen_args.n
    /\ gen_args.min_x <= x /\ x <= gen_args.max_x
    /\ gen_args.min_y <= y /\ y <= gen_args.max_y
    /\ LET v == Vertex(x, y)
       IN  IF \E k \in DOMAIN points : distance_panics(v, points[k])
           THEN pc' = "panic" /\ UNCHANGED points
           ELSE IF FGreaterEq(minimum_distance(v, points), gen_args.min_d)
           THEN pc' = "gen_loop" /\ points' = VecPush(points, v)
           ELSE pc' = "gen_loop" /\ UNCHANGED points
    /\ UNCHANGED <<build, vertex_table, edges, admitted, gen_args, edge_args, edge,
                   text, ingested, call, ret>>

\* lib.rs:112, 121: the loop condition fails; return Ok(points).
GenReturn ==
    /\ pc = "gen_loop"
    /\ VecLen(points) >= gen_args.n
    /\ pc' = "gen_done"
    /\ UNCHANGED <<build, points, vertex_table, edges, admitted, gen_args, edge_args, edge,
                   text, ingested, call, ret>>

GenInit ==
    /\ pc = "gen_call"
    /\ build \in {"debug", "release"}
    /\ gen_args \in GenArgs
    /\ points = EmptyVec
    /\ vertex_table = EmptyVec
    /\ edges = EmptyVec
    /\ admitted = <<>>
    /\ edge_args = NoEdgeArgs
    /\ edge = NoEdge
    /\ Unused

GenNext ==
    \/ GenStart
    \/ \E x \in DrawXs, y \in DrawYs : GenDraw(x, y)
    \/ GenReturn

\* A call of generate.
GenSpec == GenInit /\ [][GenNext]_vars

(***************************************************************************)
(* generate on the square [0, 2^16] x [0, 2^16], drawing its corners, its  *)
(* centre and the middles of its sides: distances from the centre to the   *)
(* corners overflow i32.                                                   *)
(***************************************************************************)
FarDraws == {0, 2 ^ 15, Far}

FarMinDistances == {2 * Scale, 70000 * Scale, 100000 * Scale}

FarGenArgs ==
    [n : 1..2, min_d : FarMinDistances,
     min_x : {0}, max_x : {Far}, min_y : {0}, max_y : {Far}]

FarGenInit ==
    /\ pc = "gen_call"
    /\ build \in {"debug", "release"}
    /\ gen_args \in FarGenArgs
    /\ points = EmptyVec
    /\ vertex_table = EmptyVec
    /\ edges = EmptyVec
    /\ admitted = <<>>
    /\ edge_args = NoEdgeArgs
    /\ edge = NoEdge
    /\ Unused

FarGenNext ==
    \/ GenStart
    \/ \E x \in FarDraws, y \in FarDraws : GenDraw(x, y)
    \/ GenReturn

\* A call of generate on the large square.
FarGenSpec == FarGenInit /\ [][FarGenNext]_vars

(***************************************************************************)
(* A single call of Vertex::distance (lib.rs:31-34), on coordinates whose  *)
(* differences lie on both sides of 2^15.                                  *)
(***************************************************************************)
DistXs == {-(2 ^ 15), -1, 0, 3, 2 ^ 15 - 2, 2 ^ 15 - 1}

DistYs == {-(2 ^ 15), 0, 4, 2 ^ 15 - 1}

DistPoints == {Vertex(x, y) : x \in DistXs, y \in DistYs}

\* u.distance(&v): the i32 sum of the squares, then its square root as f32. A
\* build that checks overflow panics when an operation leaves the i32 range.
VertexDistance ==
    /\ pc = "dist_call"
    /\ LET dx == call.u.x - call.v.x
           dy == call.u.y - call.v.y
       IN  IF build = "debug" /\ overflows_of(dx, dy)
           THEN /\ pc' = "panic"
                /\ ret' = NoCall
           ELSE /\ pc' = "dist_done"
                /\ ret' = [op    |-> "distance",
                           sum   |-> WrapI32(SumOfSquares(dx, dy)),
                           value |-> distance_of(dx, dy)]
    /\ UNCHANGED <<build, points, vertex_table, edges, admitted, gen_args,
                   edge_args, edge, text, ingested, call>>

DistInit ==
    /\ pc = "dist_call"
    /\ build \in {"debug", "release"}
    /\ call \in [op : {"distance"}, u : DistPoints, v : DistPoints]
    /\ ret = NoCall
    /\ points = EmptyVec
    /\ vertex_table = EmptyVec
    /\ edges = EmptyVec
    /\ admitted = <<>>
    /\ gen_args = NoGenArgs
    /\ edge_args = NoEdgeArgs
    /\ edge = NoEdge
    /\ text = <<>>
    /\ ingested = EmptyVec

DistNext == VertexDistance

\* A call of Vertex::distance on any two points of DistPoints.
DistSpec == DistInit /\ [][DistNext]_vars

(***************************************************************************)
(* The parameter checks of generate (lib.rs:97-107) alone, on parameters   *)
(* around the multiples of 20 and on rectangles up to the i32 limits.      *)
(***************************************************************************)
SizeCounts == 1..21

\* min_d 1.5, 2.0, 2.5 and 10.0: min_d.ceil() is 2, 2, 3 and 10.
SizeMinDistances == {(3 * Scale) \div 2, 2 * Scale, (5 * Scale) \div 2, 10 * Scale}

SizeArgs ==
    [n : SizeCounts, min_d : SizeMinDistances,
     min_x : {-MaxI32 - 1, 0}, max_x : 0..11 \cup {MaxI32},
     min_y : {-MaxI32 - 1, 0}, max_y : {1, 5, 11, MaxI32}]

SizeInit ==
    /\ pc = "gen_call"
    /\ build \in {"debug", "release"}
    /\ gen_args \in SizeArgs
    /\ points = EmptyVec
    /\ vertex_table = EmptyVec
    /\ edges = EmptyVec
    /\ admitted = <<>>
    /\ edge_args = NoEdgeArgs
    /\ edge = NoEdge
    /\ Unused

SizeNext == GenStart

\* The checks at the head of a call of generate.
SizeSpec == SizeInit /\ [][SizeNext]_vars

(***************************************************************************)
(* Edge::new and Edge::from_vertices (lib.rs:47-62).                       *)
(***************************************************************************)
EdgeCoords == {0, 1, 2, Far}

EdgeArgs == [x0 : EdgeCoords, y0 : EdgeCoords, x1 : EdgeCoords, y1 : EdgeCoords]

\* The body shared by the two constructors: both asserts, then the length.
ConstructEdge(u, v) ==
    IF u.x = v.x \/ u.y = v.y \/ distance_panics(u, v)
    THEN pc' = "panic" /\ UNCHANGED edge
    ELSE pc' = "edge_done" /\ edge' = [u |-> u, v |-> v, length |-> distance(u, v)]

\* Edge::new(x0, y0, x1, y1) (lib.rs:47-55).
EdgeNew ==
    /\ pc = "edge_call"
    /\ ConstructEdge(Vertex(edge_args.x0, edge_args.y0), Vertex(edge_args.x1, edge_args.y1))
    /\ UNCHANGED <<build, points, vertex_table, edges, admitted, gen_args, edge_args,
                   text, ingested, call, ret>>

\* Edge::from_vertices(u, v) (lib.rs:58-62), u = (x0, y0), v = (x1, y1).
EdgeFromVertices ==
    /\ pc = "edge_call"
    /\ LET u == Vertex(edge_args.x0, edge_args.y0)
           v == Vertex(edge_args.x1, edge_args.y1)
       IN  ConstructEdge(u, v)
    /\ UNCHANGED <<build, points, vertex_table, edges, admitted, gen_args, edge_args,
                   text, ingested, call, ret>>

EdgeInit ==
    /\ pc = "edge_call"
    /\ build \in {"debug", "release"}
    /\ edge_args \in EdgeArgs
    /\ edge = NoEdge
    /\ points = EmptyVec
    /\ vertex_table = EmptyVec
    /\ edges = EmptyVec
    /\ admitted = <<>>
    /\ gen_args = NoGenArgs
    /\ Unused

EdgeNext == EdgeNew \/ EdgeFromVertices

\* A call of one of the two Edge constructors.
EdgeSpec == EdgeInit /\ [][EdgeNext]_vars

(***************************************************************************)
(* The text between calc and plot: exhaust (bin/calc.rs:254-268) writes    *)
(* the edges, ingest (bin/plot.rs:166-205) reads them. A string is a       *)
(* sequence of one-character strings, a text a sequence of lines.          *)
(***************************************************************************)
Digits == <<"0", "1", "2", "3", "4", "5", "6", "7", "8", "9">>

\* mst::FIELD_SEPARATOR, which calc and plot alias as FSEP: "a distinct fixed
\* separator constant"; its definition is not among the source files.
FSEP == <<",">>

\* `{}` of a non-negative i32: its decimal digits, no leading zero.
RECURSIVE NatToText(_)
NatToText(n) ==
    IF n < 10 THEN <<Digits[n + 1]>>
    ELSE NatToText(n \div 10) \o <<Digits[(n % 10) + 1]>>

\* `{}` of an i32 (Display).
Display(n) == IF n < 0 THEN <<"-">> \o NatToText(-n) ELSE NatToText(n)

\* The line that exhaust writes for the edge e (bin/calc.rs:259-263).
EdgeLine(e) ==
    Display(e.u.x) \o FSEP \o Display(e.u.y) \o FSEP \o Display(e.v.x) \o FSEP \o Display(e.v.y)

\* str::starts_with.
StartsWith(str, prefix) ==
    Len(str) >= Len(prefix) /\ SubSeq(str, 1, Len(prefix)) = prefix

\* str::split(sep), all the fields: the text before the first occurrence of
\* sep, then the fields of the text after it.
RECURSIVE Split(_, _, _)
Split(str, sep, field) ==
    IF str = <<>> THEN <<field>>
    ELSE IF StartsWith(str, sep)
         THEN <<field>> \o Split(SubSeq(str, Len(sep) + 1, Len(str)), sep, <<>>)
         ELSE Split(Tail(str), sep, Append(field, Head(str)))

IsDigit(c) == \E d \in 1..10 : Digits[d] = c

DigitValue(c) == (CHOOSE d \in 1..10 : Digits[d] = c) - 1

\* The value of a run of digits, or NaN when it is above i32::MAX.
RECURSIVE DigitsValue(_, _)
DigitsValue(str, acc) ==
    IF str = <<>> THEN acc
    ELSE LET d == DigitValue(Head(str))
         IN  IF acc > (MaxI32 - d) \div 10 THEN NaN
             ELSE DigitsValue(Tail(str), 10 * acc + d)

\* s.parse::<i32>().unwrap_or(0): an optional sign, then one digit or more and
\* nothing else, within the i32 range; anything else gives 0.
ParseOrZero(str) ==
    LET signed == str # <<>> /\ Head(str) \in {"-", "+"}
        body   == IF signed THEN Tail(str) ELSE str
        value  == DigitsValue(body, 0)
    IN  IF body = <<>> \/ (\E k \in 1..Len(body) : ~IsDigit(body[k])) \/ value = NaN
        THEN 0
        ELSE IF signed /\ Head(str) = "-" THEN -value ELSE value

\* Edge::new aborts (lib.rs:48-52): an assert fails or the distance panics.
EdgeNewAborts(x0, y0, x1, y1) ==
    x0 = x1 \/ y0 = y1 \/ distance_panics(Vertex(x0, y0), Vertex(x1, y1))

\* The Edge that Edge::new returns (lib.rs:50-54).
EdgeNewValue(x0, y0, x1, y1) ==
    [u |-> Vertex(x0, y0), v |-> Vertex(x1, y1),
     length |-> distance(Vertex(x0, y0), Vertex(x1, y1))]

\* The loop of plot's ingest (bin/plot.rs:171-202) from line k on: a line
\* shorter than 3 or starting with # is skipped, so is one with fewer than
\* four fields; the others are pushed through Edge::new.
RECURSIVE IngestFrom(_, _, _)
IngestFrom(lines, k, acc) ==
    IF k > Len(lines) THEN [aborted |-> FALSE, edges |-> acc]
    ELSE LET line   == lines[k]
             fields == Split(line, FSEP, <<>>)
         IN  IF Len(line) < 3 \/ StartsWith(line, <<"#">>) \/ Len(fields) < 4
             THEN IngestFrom(lines, k + 1, acc)
             ELSE LET x0 == ParseOrZero(fields[1])
                      y0 == ParseOrZero(fields[2])
                      x1 == ParseOrZero(fields[3])
                      y1 == ParseOrZero(fields[4])
                  IN  IF EdgeNewAborts(x0, y0, x1, y1)
                      THEN [aborted |-> TRUE, edges |-> acc]
                      ELSE IngestFrom(lines, k + 1, VecPush(acc, EdgeNewValue(x0, y0, x1, y1)))

\* calc's exhaust (bin/calc.rs:254-268) on the edges minimum_spanning_tree returned.
Exhaust ==
    /\ pc = "mst_done"
    /\ text' = [k \in 1..VecLen(edges) |-> EdgeLine(edges[k - 1])]
    /\ pc' = "text_written"
    /\ UNCHANGED <<build, points, vertex_table, edges, admitted, gen_args, edge_args, edge,
                   ingested, call, ret>>

\* plot's ingest (bin/plot.rs:166-205) on the text that exhaust wrote.
Ingest ==
    /\ pc = "text_written"
    /\ LET read == IngestFrom(text, 1, EmptyVec)
       IN  /\ ingested' = read.edges
           /\ pc' = IF read.aborted THEN "ingest_panic" ELSE "ingest_done"
    /\ UNCHANGED <<build, points, vertex_table, edges, admitted, gen_args, edge_args, edge,
                   text, call, ret>>

TextNext == MstStart \/ MstRound \/ MstReturn \/ Exhaust \/ Ingest

\* minimum_spanning_tree, then its edges through exhaust and ingest.
TextSpec == Init /\ [][TextNext]_vars

(***************************************************************************)
(* plot_dimensions and plot_vertex (lib.rs:246-297).                       *)
(***************************************************************************)
\* Most edges in an edge sequence given to plot_dimensions.
MaxEdges == 2

MinI32 == -MaxI32 - 1

\* i32 `/` by a positive divisor: the quotient is truncated towards zero.
TruncDiv(a, b) == IF a >= 0 THEN a \div b ELSE -((-a) \div b)

\* The endpoints of the edges given to plot_dimensions: both signs, odd and
\* even sums, a wide and a tall spread.
PlotPoints == {Vertex(-7, -2), Vertex(0, 0), Vertex(3, -2), Vertex(8, 5), Vertex(-2, 8)}

\* plot_dimensions reads u and v only; the edges are any pairs of PlotPoints.
PlotEdges == {[u |-> p, v |-> q, length |-> euclid_of(p.x - q.x, p.y - q.y)] : p, q \in PlotPoints}

PlotEdgeVecs == UNION {[0..(n - 1) -> PlotEdges] : n \in 1..MaxEdges}

\* plot passes margin 10 (lib.rs:217).
PlotMargins == {0, 10}

\* lib.rs:247-250: the bounds before the loop.
NoBounds == [min_x |-> MaxI32, max_x |-> MinI32, min_y |-> MaxI32, max_y |-> MinI32]

\* The four updates of lib.rs:253-264 (for u) or lib.rs:266-277 (for v).
Widen(b, p) ==
    [min_x |-> IF p.x < b.min_x THEN p.x ELSE b.min_x,
     min_y |-> IF p.y < b.min_y THEN p.y ELSE b.min_y,
     max_x |-> IF p.x > b.max_x THEN p.x ELSE b.max_x,
     max_y |-> IF p.y > b.max_y THEN p.y ELSE b.max_y]

\* The loop of lib.rs:252-278, from edge k on.
RECURSIVE PlotBounds(_, _, _)
PlotBounds(es, k, b) ==
    IF k >= VecLen(es) THEN b
    ELSE PlotBounds(es, k + 1, Widen(Widen(b, es[k].u), es[k].v))

\* lib.rs:280-285 with the margin added once instead of twice.
DimensionsOneMargin(b, margin) ==
    LET w == b.max_x - b.min_x + margin
        h == b.max_y - b.min_y + margin
        d == IF w >= h THEN w ELSE h
    IN  [width  |-> d,
         height |-> d,
         x0     |-> TruncDiv(b.min_x + b.max_x, 2) - TruncDiv(d, 2),
         y0     |-> TruncDiv(b.min_y + b.max_y, 2) - TruncDiv(d, 2)]

\* lib.rs:280-285: the side of the square and its corner.
Dimensions(b, margin) ==
    LET w == b.max_x - b.min_x + 2 * margin
        h == b.max_y - b.min_y + 2 * margin
        d == IF w >= h THEN w ELSE h
    IN  [width  |-> d,
         height |-> d,
         x0     |-> TruncDiv(b.min_x + b.max_x, 2) - TruncDiv(d, 2),
         y0     |-> TruncDiv(b.min_y + b.max_y, 2) - TruncDiv(d, 2)]

\* plot_dimensions (lib.rs:246-286) on coordinates whose sums and differences
\* stay in the i32 range.
plot_dimensions(es, margin) == Dimensions(PlotBounds(es, 0, NoBounds), margin)

\* The pixels that plot_vertex writes for (x, y) (lib.rs:292-296).
PlotVertexPixels(x, y) ==
    {<<x - 1, y - 1>>, <<x - 1, y + 1>>, <<x, y>>, <<x + 1, y - 1>>, <<x + 1, y + 1>>}

\* A call of plot_dimensions.
PlotDimensions ==
    /\ pc = "plot_call"
    /\ ret' = plot_dimensions(call.edges, call.margin)
    /\ pc' = "plot_done"
    /\ UNCHANGED <<build, points, vertex_table, edges, admitted, gen_args, edge_args, edge,
                   text, ingested, call>>

PlotInit ==
    /\ pc = "plot_call"
    /\ build \in {"debug", "release"}
    /\ call \in [op : {"plot_dimensions"}, edges : PlotEdgeVecs, margin : PlotMargins]
    /\ ret = NoCall
    /\ points = EmptyVec
    /\ vertex_table = EmptyVec
    /\ edges = EmptyVec
    /\ admitted = <<>>
    /\ gen_args = NoGenArgs
    /\ edge_args = NoEdgeArgs
    /\ edge = NoEdge
    /\ text = <<>>
    /\ ingested = EmptyVec

PlotNext == PlotDimensions

PlotSpec == PlotInit /\ [][PlotNext]_vars

(***************************************************************************)
(* Graphs on the indices 0..n-1 of a point sequence: a link is a set of    *)
(* two indices.                                                            *)
(***************************************************************************)
\* The indices connected to one of `seen` by links.
RECURSIVE Closure(_, _)
Closure(links, seen) ==
    LET more == seen \cup UNION {l \in links : l \cap seen # {}}
    IN  IF more = seen THEN seen ELSE Closure(links, more)

Connected(n, links) == Closure(links, {0}) = 0..(n - 1)

\* No cycle: removing, again and again, the links that end in an index of
\* degree one removes every link.
RECURSIVE Acyclic(_)
Acyclic(links) ==
    LET hanging == {l \in links : \E x \in l : Cardinality({m \in links : x \in m}) = 1}
    IN  IF links = {} THEN TRUE
        ELSE IF hanging = {} THEN FALSE
        ELSE Acyclic(links \ hanging)

AllLinks(n) == {{i, j} : i, j \in 0..(n - 1)} \ {{i} : i \in 0..(n - 1)}

\* Every spanning tree of the complete graph on 0..n-1, by enumeration.
SpanningTrees(n) ==
    {T \in SUBSET AllLinks(n) : Cardinality(T) = n - 1 /\ Connected(n, T)}

\* The sum of the Euclidean lengths of the links of T between the points ps.
RECURSIVE TreeLength(_, _)
TreeLength(ps, T) ==
    IF T = {} THEN 0
    ELSE LET l == CHOOSE l \in T : TRUE
             i == CHOOSE i \in l : TRUE
             j == CHOOSE j \in l : j # i
         IN  EuclidLength(ps[i], ps[j]) + TreeLength(ps, T \ {l})

\* The sum of the Euclidean lengths of the edges es[k..].
RECURSIVE EdgesLength(_, _)
EdgesLength(es, k) ==
    IF k >= VecLen(es) THEN 0
    ELSE EuclidLength(es[k].u, es[k].v) + EdgesLength(es, k + 1)

\* No two points of ps are so far apart that Vertex::distance overflows.
NoOverflow(ps) == \A i, j \in DOMAIN ps : ~distance_overflows(ps[i], ps[j])

(***************************************************************************)
(* The claims.                                                             *)
(***************************************************************************)

\* C1: for every non-empty input point sequence, minimum_spanning_tree
\* returns Ok (it does not abort) with exactly |points| - 1 edges.
C1_EdgeCount ==
    VecLen(points) >= 1 =>
        /\ pc # "panic"
        /\ pc = "mst_done" => VecLen(edges) = VecLen(points) - 1

\* C1, on the inputs whose distances do not overflow i32: the same statement.
C1_EdgeCountNoOverflow == NoOverflow(points) => C1_EdgeCount

\* C2: the sum of the Euclidean lengths of the returned edges is at most the
\* sum of the lengths of every spanning tree of the complete graph on the
\* input points (the inputs have at most MaxPoints <= 8 points).
C2_MinimumWeight ==
    pc = "mst_done" =>
        \A T \in SpanningTrees(VecLen(points)) :
            EdgesLength(edges, 0) <= TreeLength(points, T)

\* C2, on the inputs whose distances do not overflow i32: the same statement.
C2_MinimumWeightNoOverflow == NoOverflow(points) => C2_MinimumWeight

\* The link that the table records for index i: i and its nearest-tree index.
TableLink(i) == {i, vertex_table[i].near}

\* C3: when minimum_spanning_tree returns, the k-th returned edge joins the
\* point at index k+1 to the point at that index's recorded nearest-tree index,
\* and these n-1 links form a spanning tree of the indices: every index is
\* reachable from index 0 and there is no cycle (no link from an index to
\* itself, no link recorded twice, no longer cycle).
C3_SpanningTree ==
    pc = "mst_done" =>
        LET n     == VecLen(points)
            links == {TableLink(i) : i \in 1..(n - 1)}
        IN  /\ VecLen(edges) = n - 1
            /\ \A k \in DOMAIN edges :
                   /\ vertex_table[k + 1].near \in 0..(n - 1)
                   /\ edges[k].u = points[k + 1]
                   /\ edges[k].v = points[vertex_table[k + 1].near]
            /\ Connected(n, links)
            /\ \A i \in 1..(n - 1) : Cardinality(TableLink(i)) = 2
            /\ \A i, j \in 1..(n - 1) : i # j => TableLink(i) # TableLink(j)
            /\ Acyclic(links)

\* C3 witness: a returned tree on four points that is not a star (some vertex
\* hangs on a vertex other than the root) over an input with a repeated point.
C3_Witness ==
    /\ pc = "mst_done"
    /\ VecLen(points) = 4
    /\ \E i \in DOMAIN vertex_table : vertex_table[i].near \notin {0, i}
    /\ \E i, j \in DOMAIN points : i # j /\ points[i] = points[j]

\* C4: minimum_spanning_tree called with an empty point sequence does not
\* abort and returns an empty edge set.
C4_EmptyInput ==
    VecLen(points) = 0 =>
        /\ pc # "panic"
        /\ pc = "mst_done" => VecLen(edges) = 0

\* C10: every Edge returned by minimum_spanning_tree has endpoints that differ
\* in both coordinates.
C10_EndpointsDiffer ==
    \A k \in DOMAIN edges :
        /\ edges[k].u.x # edges[k].v.x
        /\ edges[k].u.y # edges[k].v.y

\* The parameters that the claims call invalid.
InvalidParameters(a) ==
    \/ a.n <= 0
    \/ a.min_d <= Scale
    \/ a.min_x >= a.max_x
    \/ a.min_y >= a.max_y
    \/ ~(a.max_x - a.min_x > (a.n * CeilToI32(a.min_d)) \div 20)
    \/ ~(a.max_y - a.min_y > (a.n * CeilToI32(a.min_d)) \div 20)

InRectangle(a, v) ==
    /\ a.min_x <= v.x /\ v.x <= a.max_x
    /\ a.min_y <= v.y /\ v.y <= a.max_y

\* Every two positions of ps hold points at Euclidean distance >= min_d.
Separated(ps, min_d) ==
    \A i, j \in DOMAIN ps : i # j => EuclidLength(ps[i], ps[j]) >= min_d

\* C6: after every loop iteration of generate, and when it returns, every
\* accepted point is inside the closed rectangle and every two positions are at
\* Euclidean distance >= min_d; the returned sequence has exactly n points.
C6_Separation ==
    pc \in {"gen_loop", "gen_done"} =>
        /\ \A k \in DOMAIN points : InRectangle(gen_args, points[k])
        /\ Separated(points, gen_args.min_d)
        /\ pc = "gen_done" => VecLen(points) = gen_args.n

\* The rectangle is so small that no distance inside it overflows i32.
NoOverflowInRectangle(a) ==
    ~overflows_of(a.max_x - a.min_x, a.max_y - a.min_y)

\* C6, on the rectangles in which no distance overflows i32: the same statement.
C6_SeparationNoOverflow == NoOverflowInRectangle(gen_args) => C6_Separation

\* C7: generate called with invalid parameters ends with an error result, not
\* with a panic, and produces no points.
C7_ErrorResult ==
    (pc # "gen_call" /\ InvalidParameters(gen_args)) =>
        /\ pc = "gen_error"
        /\ VecLen(points) = 0

\* The lattice points of the rectangle, when the model draws all of them.
FullyDrawn(a) == (a.min_x..a.max_x) \subseteq DrawXs /\ (a.min_y..a.max_y) \subseteq DrawYs

Lattice(a) == {Vertex(x, y) : x \in a.min_x..a.max_x, y \in a.min_y..a.max_y}

\* No n lattice points of the rectangle are pairwise at distance >= min_d.
Infeasible(a) ==
    ~\E S \in SUBSET Lattice(a) :
        /\ Cardinality(S) = a.n
        /\ \A u, v \in S : u # v => EuclidLength(u, v) >= a.min_d

\* C8: for parameters that pass every check of generate and admit no n lattice
\* points with pairwise distance >= min_d, the sampling loop never exits: after
\* the checks the call stays in the loop with fewer than n accepted points,
\* whatever is drawn.
C8_NeverExits ==
    (pc # "gen_call" /\ FullyDrawn(gen_args) /\ ParametersAccepted(gen_args)
                     /\ Infeasible(gen_args)) =>
        /\ pc = "gen_loop"
        /\ VecLen(points) < gen_args.n

\* C8 witness: the parameters of the claim (n = 3, min_d = 2.0, rectangle
\* [0,1] x [0,1]) have passed the checks, are infeasible, and the loop has
\* accepted its first point.
C8_Witness ==
    /\ gen_args = [n |-> 3, min_d |-> 2 * Scale, min_x |-> 0, min_y |-> 0, max_x |-> 1, max_y |-> 1]
    /\ ParametersAccepted(gen_args)
    /\ Infeasible(gen_args)
    /\ pc = "gen_loop"
    /\ VecLen(points) = 1

\* C9: Edge::new and Edge::from_vertices abort when the endpoints share x or
\* share y; otherwise they construct the Edge with u = (x0, y0), v = (x1, y1)
\* and length the distance between u and v.
C9_EdgeConstruction ==
    pc # "edge_call" =>
        LET u == Vertex(edge_args.x0, edge_args.y0)
            v == Vertex(edge_args.x1, edge_args.y1)
        IN  IF u.x = v.x \/ u.y = v.y
            THEN pc = "panic"
            ELSE /\ pc = "edge_done"
                 /\ edge.u = u
                 /\ edge.v = v
                 /\ edge.length = EuclidLength(u, v)

\* C9, on the endpoints whose distance does not overflow i32: the same statement.
C9_EdgeConstructionNoOverflow ==
    ~distance_overflows(Vertex(edge_args.x0, edge_args.y0), Vertex(edge_args.x1, edge_args.y1))
        => C9_EdgeConstruction

\* C11: every edge returned by minimum_spanning_tree stores as its length the
\* cost recorded when its vertex was admitted, and that length is the
\* Euclidean distance between the edge's two endpoints.
C11_StoredLength ==
    pc = "mst_done" =>
        \A k \in DOMAIN edges :
            /\ \E r \in 1..Len(admitted) :
                   /\ points[admitted[r].index] = edges[k].u
                   /\ points[admitted[r].tree_index] = edges[k].v
                   /\ admitted[r].cost = edges[k].length
            /\ edges[k].length = EuclidLength(edges[k].u, edges[k].v)

\* C11, on the inputs whose distances do not overflow i32: the same statement.
C11_StoredLengthNoOverflow == NoOverflow(points) => C11_StoredLength

\* C11, against Vertex::distance instead of the Euclidean distance: the stored
\* length is what Vertex::distance returns for the two endpoints, on every input.
C11_StoredLengthAsComputed ==
    pc = "mst_done" =>
        \A k \in DOMAIN edges : edges[k].length = distance(edges[k].u, edges[k].v)

\* C12: for every edge sequence that minimum_spanning_tree returns, writing it
\* with exhaust and reading the text with plot's ingest completes, and gives
\* as many edges with the same endpoint coordinates in the same order.
C12_RoundTrip ==
    /\ pc # "ingest_panic"
    /\ pc = "ingest_done" =>
           /\ VecLen(ingested) = VecLen(edges)
           /\ \A k \in DOMAIN edges :
                  /\ ingested[k].u = edges[k].u
                  /\ ingested[k].v = edges[k].v

\* Edge::new accepts every edge of es.
ProperEdges(es) ==
    \A k \in DOMAIN es :
        ~EdgeNewAborts(es[k].u.x, es[k].u.y, es[k].v.x, es[k].v.y)

\* C12, on the edge sequences whose edges Edge::new accepts: the same statement.
C12_RoundTripProperEdges == ProperEdges(edges) => C12_RoundTrip

\* The table indices in the tree before round r: the root and the indices
\* admitted by the rounds before r.
InTreeBefore(r) == {0} \cup {admitted[j].index : j \in 1..(r - 1)}

\* The pair (t, i) is met before the pair (u, j) by the scan: tree vertices in
\* increasing table index and, for each, candidates in increasing table index.
MetBefore(t, i, u, j) == t < u \/ (t = u /\ i < j)

C14_LoopRounds ==
    VecLen(points) >= 1 =>
        /\ pc # "panic"
        /\ Len(admitted) <= VecLen(points) - 1
        /\ pc = "mst_done" => Len(admitted) = VecLen(points) - 1
        /\ \A r \in 1..Len(admitted) : admitted[r].index \notin InTreeBefore(r)
        /\ \A i \in DOMAIN vertex_table :
               /\ vertex_table[i].index = i
               /\ vertex_table[i].vertex = points[i]
               /\ \A r \in 1..Len(admitted) :
                      admitted[r].index = i =>
                          /\ vertex_table[i].near = admitted[r].tree_index
                          /\ vertex_table[i].cost = admitted[r].cost
               /\ (i # 0 /\ \A r \in 1..Len(admitted) : admitted[r].index # i) =>
                      /\ vertex_table[i].near = UMARK
                      /\ vertex_table[i].cost = FMARK
               /\ (i = 0 /\ pc # "mst_call") =>
                      /\ vertex_table[i].near = 0
                      /\ vertex_table[i].cost = 0

\* C14, on the inputs whose distances do not overflow i32: the same statement.
C14_LoopRoundsNoOverflow == NoOverflow(points) => C14_LoopRounds

\* Index i was admitted after index j (the root is in the tree from the start).
AdmittedAfter(i, j) ==
    \E r \in 1..Len(admitted) :
        /\ admitted[r].index = i
        /\ j \in InTreeBefore(r)

\* C15: when minimum_spanning_tree returns, index 0 is the only index that is
\* its own nearest-tree index, and the edge list holds, in increasing order of
\* i, one edge for each index i >= 1 and none for the root, from the point at
\* i (u) to the point at i's nearest-tree index (v), which was admitted before i.
C15_EdgeList ==
    pc = "mst_done" =>
        /\ \A i \in DOMAIN vertex_table : vertex_table[i].near = i <=> i = 0
        /\ DOMAIN edges = 0..(VecLen(points) - 2)
        /\ \A i \in 1..(VecLen(points) - 1) :
               /\ vertex_table[i].near \in DOMAIN points
               /\ edges[i - 1].u = points[i]
               /\ edges[i - 1].v = points[vertex_table[i].near]
               /\ AdmittedAfter(i, vertex_table[i].near)

\* C15 witness: a returned edge list in which the edge of some index ends at a
\* point of greater index, admitted earlier.
C15_Witness ==
    /\ pc = "mst_done"
    /\ VecLen(edges) >= 2
    /\ \E i \in 1..(VecLen(points) - 1) :
           /\ vertex_table[i].near > i
           /\ points[vertex_table[i].near] # points[i]

\* C19: whenever the loop body is about to run on an input none of whose
\* distances overflows i32, the scan ends with a candidate index and a tree
\* index that are positions of the table, not the marker UMARK, and the run
\* has not aborted.
C19_ScanFinds ==
    (VecLen(points) >= 1 /\ NoOverflow(points)) =>
        /\ pc # "panic"
        /\ (pc = "mst_loop" /\ vertices_available(vertex_table)) =>
               /\ Scan(vertex_table).index \in DOMAIN vertex_table
               /\ Scan(vertex_table).tree_index \in DOMAIN vertex_table
               /\ Scan(vertex_table).index # UMARK
               /\ Scan(vertex_table).tree_index # UMARK

\* C19 witness: the loop body is about to run for the third time on four
\* points none of whose distances overflows.
C19_Witness ==
    /\ pc = "mst_loop"
    /\ vertices_available(vertex_table)
    /\ NoOverflow(points)
    /\ VecLen(points) = 4
    /\ Len(admitted) = 2

SetMax(S) == CHOOSE m \in S : \A e \in S : e <= m

SetMin(S) == CHOOSE m \in S : \A e \in S : m <= e

\* The endpoints of the edges of es.
Endpoints(es) == {es[k].u : k \in DOMAIN es} \cup {es[k].v : k \in DOMAIN es}

\* The larger of the spreads of the endpoints of es in x and in y.
Spread(es) ==
    LET xs == {p.x : p \in Endpoints(es)}
        ys == {p.y : p \in Endpoints(es)}
        sx == SetMax(xs) - SetMin(xs)
        sy == SetMax(ys) - SetMin(ys)
    IN  IF sx >= sy THEN sx ELSE sy

\* C16: for a non-empty edge sequence, plot_dimensions returns a square of
\* side d = max(max_x - min_x, max_y - min_y) + 2 * margin; for margin = 10
\* every endpoint (x, y) has 1 <= x - x0 <= d - 2 and 1 <= y - y0 <= d - 2, and
\* every pixel that plot_vertex writes for it is inside the d x d image.
C16_PlotSquare ==
    pc = "plot_done" =>
        LET d == Spread(call.edges) + 2 * call.margin
        IN  /\ ret.width = d
            /\ ret.height = d
            /\ call.margin = 10 =>
                   \A p \in Endpoints(call.edges) :
                       /\ 1 <= p.x - ret.x0 /\ p.x - ret.x0 <= d - 2
                       /\ 1 <= p.y - ret.y0 /\ p.y - ret.y0 <= d - 2
                       /\ \A px \in PlotVertexPixels(p.x - ret.x0, p.y - ret.y0) :
                              /\ 0 <= px[1] /\ px[1] < ret.width
                              /\ 0 <= px[2] /\ px[2] < ret.height

\* C16 witness: plot_dimensions has returned for margin 10 and two edges whose
\* smallest and largest x have a negative odd sum, which `/ 2` truncates
\* towards zero.
C16_Witness ==
    /\ pc = "plot_done"
    /\ call.margin = 10
    /\ VecLen(call.edges) = 2
    /\ LET xs == {p.x : p \in Endpoints(call.edges)}
       IN  /\ SetMin(xs) + SetMax(xs) < 0
           /\ (SetMin(xs) + SetMax(xs)) % 2 = 1

\* hi - lo > p / 20 with the difference and the quotient taken exactly, for
\* 0 <= p <= i32::MAX (a difference above i32::MAX \div 20 is above p / 20).
ExactlyWider(hi, lo, p) ==
    IF sub_overflows(hi, lo) THEN lo < 0
    ELSE IF hi - lo > MaxI32 \div 20 THEN TRUE
    ELSE 20 * (hi - lo) > p

\* C17: for n > 0, min_d > 1.0 and bounds in order, generate accepts the
\* rectangle exactly when max_x - min_x > n * ceil(min_d) / 20 and
\* max_y - min_y > n * ceil(min_d) / 20 with the quotient taken exactly.
C17_SizeCheck ==
    (/\ pc # "gen_call"
     /\ gen_args.n > 0
     /\ gen_args.min_d > Scale
     /\ gen_args.min_x < gen_args.max_x
     /\ gen_args.min_y < gen_args.max_y) =>
        (pc = "gen_loop" <=>
            /\ ExactlyWider(gen_args.max_x, gen_args.min_x, gen_args.n * CeilToI32(gen_args.min_d))
            /\ ExactlyWider(gen_args.max_y, gen_args.min_y, gen_args.n * CeilToI32(gen_args.min_d)))

\* C17, on the rectangles whose width and height are within i32: the same
\* statement.
C17_SizeCheckNoOverflow ==
    (/\ ~sub_overflows(gen_args.max_x, gen_args.min_x)
     /\ ~sub_overflows(gen_args.max_y, gen_args.min_y)) => C17_SizeCheck

(***************************************************************************)
(* Dense Prim's with an incrementally maintained key, as the specification *)
(* describes it: every vertex outside the tree keeps its smallest known    *)
(* distance to the tree and the tree vertex giving it.                     *)
(***************************************************************************)
\* The keys before any vertex is in the tree.
KeyItem(index, vertex) ==
    [index |-> index, near |-> UMARK, cost |-> FMARK, vertex |-> vertex, in_tree |-> FALSE]

\* Vertex a has been admitted: a vertex outside the tree replaces its key only
\* when a offers a strictly shorter distance.
Relax(keys, a) ==
    [i \in DOMAIN keys |->
        IF keys[i].in_tree THEN keys[i]
        ELSE LET d == distance(keys[a].vertex, keys[i].vertex)
             IN  IF FLess(d, keys[i].cost)
                 THEN [keys[i] EXCEPT !.near = a, !.cost = d]
                 ELSE keys[i]]

\* The vertex outside the tree of smallest key, first in index order on ties.
PickKey(keys) ==
    CHOOSE i \in DOMAIN keys :
        /\ ~keys[i].in_tree
        /\ \A j \in DOMAIN keys :
              ~keys[j].in_tree =>
                  /\ ~FLess(keys[j].cost, keys[i].cost)
                  /\ keys[j].cost = keys[i].cost => i <= j

\* The rounds: admit the picked vertex, then update the keys from it. order is
\* the sequence of admissions (vertex, tree vertex, distance).
RECURSIVE KeyRounds(_, _)
KeyRounds(keys, order) ==
    IF \A i \in DOMAIN keys : keys[i].in_tree THEN [keys |-> keys, order |-> order]
    ELSE LET i == PickKey(keys)
         IN  KeyRounds(Relax([keys EXCEPT ![i].in_tree = TRUE], i),
                       Append(order, [tree_index |-> keys[i].near,
                                      index      |-> i,
                                      cost       |-> keys[i].cost]))

\* The whole run on a non-empty point sequence: vertex 0 starts the tree.
KeyPrim(pts) ==
    LET start == [i \in DOMAIN pts |-> KeyItem(i, pts[i])]
    IN  KeyRounds(Relax([start EXCEPT ![0].near = 0, ![0].cost = 0, ![0].in_tree = TRUE], 0),
                  <<>>)

\* Its edge list: one edge per vertex other than vertex 0, in index order.
KeyEdges(pts) == BuildEdges(KeyPrim(pts).keys, 0, EmptyVec)

\* The two runs admit the same vertices from the same tree vertices in the
\* same order and return the same edge list.
SameAsRescan ==
    /\ KeyPrim(points).order = admitted
    /\ KeyEdges(points) = edges

\* C18 as stated: for every point sequence, ones with equal distances
\* included, the keyed run and the full-rescan loop agree on the admission
\* order and on the edge list.
C18_SameAsRescan == pc = "mst_done" => SameAsRescan

\* No two pairs of positions of pts are at the same computed distance.
DistinctDistances(pts) ==
    \A i, j, k, l \in DOMAIN pts :
        (i < j /\ k < l /\ <<i, j>> # <<k, l>>) =>
            distance(pts[i], pts[j]) # distance(pts[k], pts[l])

\* C18, amended: on the point sequences whose pairwise distances are all
\* different, the keyed run and the full-rescan loop agree on the admission
\* order and on the edge list.
C18_SameAsRescanDistinct ==
    (pc = "mst_done" /\ DistinctDistances(points)) => SameAsRescan

\* C18 witness: four points at six different distances have been joined by
\* the rescan loop into a tree that is not a star around vertex 0.
C18_Witness ==
    /\ pc = "mst_done"
    /\ VecLen(points) = 4
    /\ DistinctDistances(points)
    /\ \E i \in DOMAIN vertex_table : vertex_table[i].near # 0

\* The largest coordinate difference the claim calls safe.
SafeDiff == 2 ^ 15 - 1

\* The call that returned ret, with its arguments exchanged, returns the same.
Symmetric ==
    ret.value = distance_of(call.v.x - call.u.x, call.v.y - call.u.y)

\* C20: when |dx| <= 32767 and |dy| <= 32767 nothing overflows: the call
\* returns, the i32 sum is the exact dx*dx + dy*dy, the result is its square
\* root (within 0.002 of the Euclidean distance, the sum being rounded to 24
\* bits by the cast, and equal to it when the sum is below 2^24), it is the
\* same with the arguments exchanged, and it is 0 exactly when the points
\* coincide. When |dx| = |dy| = 32768 the sum is 2^31, above i32::MAX: a build
\* that checks panics, one that does not gets a negative sum and NaN.
C20_Distance ==
    pc \in {"dist_done", "panic"} =>
        LET dx == call.u.x - call.v.x
            dy == call.u.y - call.v.y
        IN  /\ (Abs(dx) <= SafeDiff /\ Abs(dy) <= SafeDiff) =>
                  /\ ~overflows_of(dx, dy)
                  /\ pc = "dist_done"
                  /\ ret.sum = dx * dx + dy * dy
                  /\ ret.value # NaN
                  /\ Abs(ret.value - euclid_of(dx, dy)) <= 2
                  /\ dx * dx + dy * dy < 2 ^ 24 => ret.value = euclid_of(dx, dy)
                  /\ Symmetric
                  /\ ret.value = 0 <=> call.u = call.v
            /\ (Abs(dx) = SafeDiff + 1 /\ Abs(dy) = SafeDiff + 1) =>
                  /\ overflows_of(dx, dy)
                  /\ build = "debug" => pc = "panic"
                  /\ build = "release" => (ret.sum < 0 /\ ret.value = NaN)

\* C20 witness: a call with |dx| = |dy| = 32767 has returned a number.
C20_Witness ==
    /\ pc = "dist_done"
    /\ Abs(call.u.x - call.v.x) = SafeDiff
    /\ Abs(call.u.y - call.v.y) = SafeDiff
    /\ ret.value # NaN

\* The corners of the rectangle.
Corners(a) == {Vertex(x, y) : x \in {a.min_x, a.max_x}, y \in {a.min_y, a.max_y}}

\* Every lattice point of the rectangle is closer than min_d to some point of
\* ps. A small rectangle is gone through point by point; for a large one a
\* single point of ps closer than min_d to the four corners is looked for (the
\* points closer than min_d to it form a disc, which then holds the rectangle).
Covered(a, ps) ==
    IF FullyDrawn(a)
    THEN \A v \in Lattice(a) : \E k \in DOMAIN ps : EuclidLength(v, ps[k]) < a.min_d
    ELSE \E k \in DOMAIN ps : \A c \in Corners(a) : EuclidLength(c, ps[k]) < a.min_d

\* The loop holds fewer than n accepted points and no lattice point of the
\* rectangle is at min_d or more from all of them.
Stuck ==
    /\ pc = "gen_loop"
    /\ VecLen(points) < gen_args.n
    /\ Covered(gen_args, points)

\* points' is points, or points with one more point at the end.
KeepsAccepted ==
    /\ VecLen(points') \in {VecLen(points), VecLen(points) + 1}
    /\ \A k \in DOMAIN points : points'[k] = points[k]

\* C21: in generate accepted points are never removed or changed, the first
\* draw is always accepted, and from a state with fewer than n accepted points
\* in which every lattice point is closer than min_d to an accepted one, no
\* draw changes anything: the call stays in the loop.
C21_StuckForever ==
    [][/\ pc \in {"gen_call", "gen_loop"} => KeepsAccepted
       /\ (pc = "gen_loop" /\ VecLen(points) = 0) =>
              (pc' = "gen_loop" /\ VecLen(points') = 1)
       /\ Stuck => (pc' = "gen_loop" /\ points' = points)]_vars

\* C21, on the rectangles inside which no distance overflows i32: the same
\* statement.
C21_StuckForeverNoOverflow ==
    [][NoOverflowInRectangle(gen_args) =>
          /\ pc \in {"gen_call", "gen_loop"} => KeepsAccepted
          /\ (pc = "gen_loop" /\ VecLen(points) = 0) =>
                 (pc' = "gen_loop" /\ VecLen(points') = 1)
          /\ Stuck => (pc' = "gen_loop" /\ points' = points)]_vars

\* The example of C21 is reached: n = 2, min_d = 2.0 and [0,2] x [0,1] have a
\* valid placement, and the loop is stuck with one accepted point.
C21_StuckReached ==
    /\ gen_args = [n |-> 2, min_d |-> 2 * Scale, min_x |-> 0, min_y |-> 0, max_x |-> 2, max_y |-> 1]
    /\ ~Infeasible(gen_args)
    /\ Stuck
    /\ VecLen(points) = 1

\* No n lattice points of the rectangle are pairwise at distance >= min_d. A
\* small rectangle is gone through subset by subset; a large one is known to
\* be infeasible for n >= 2 when its corners, and so all its points, are
\* pairwise closer than min_d.
InfeasibleAnywhere(a) ==
    IF FullyDrawn(a) THEN Infeasible(a)
    ELSE a.n >= 2 /\ \A c, d \in Corners(a) : EuclidLength(c, d) < a.min_d

\* C8 on every rectangle, large ones included: for parameters that pass every
\* check of generate and admit no n lattice points with pairwise distance
\* >= min_d, the sampling loop never exits.
C8_NeverExitsAnywhere ==
    (pc # "gen_call" /\ ParametersAccepted(gen_args) /\ InfeasibleAnywhere(gen_args)) =>
        /\ pc = "gen_loop"
        /\ VecLen(points) < gen_args.n

====
